---------------------------- MODULE Spec2Model ----------------------------
(***************************************************************************)
(* The COBRE connectivity notebook                                         *)
(* (BrainHack/Paris_2017/plot_cobre_connectivity_analysis.ipynb) as a      *)
(* state machine: one action per code cell or loop iteration, in the       *)
(* order of the notebook.  The notebook is glue code; where a cell calls   *)
(* nilearn, numpy or scikit-learn the action applies the behaviour of the  *)
(* called routine for the arguments the cell passes (for                   *)
(* StratifiedShuffleSplit the algorithm of scikit-learn 0.19/0.20, the     *)
(* last releases that run the notebook's Python 2 kernel).  Numbers that   *)
(* the libraries compute in floating point are kept exact: a multiple of   *)
(* a power of sqrt(2) is a record [v, e], a score is a fraction            *)
(* <<numerator, denominator>>.                                             *)
(***************************************************************************)
EXTENDS Integers, Sequences, FiniteSets, TLC

VARIABLES
    cobre_data,                          \* the fetched cohort (func, confounds, phenotypic)
    mt_seed0,                            \* the generator state numpy's RandomState(0) starts in
    np_random_global,                    \* numpy's global RandomState
    pc,                                  \* the cell (or loop) that runs next
    error,                               \* the exception that ended the run, or NoError
    timeseries_extractor,                \* the NiftiLabelsMasker object
    subjects_timeseries,
    subjects_timeseries_with_confounds,
    connectivity,                        \* the ConnectivityMeasure object
    connectivity_matrices,
    connectivity_coefs,
    classes_binary,
    cv,                                  \* the StratifiedShuffleSplit object
    svc,                                 \* the LinearSVC object
    iter_for_prediction,                 \* the generator of cv.split, first experiment
    scores,
    connectivity_coefs2,
    iter_for_prediction2,                \* the generator of cv.split, second experiment
    scores2,
    printed,                             \* the summary lines printed so far
    yielded,                             \* history: the splits each generator has yielded
    attempts                             \* history: the loop bodies started, in order

vars == <<cobre_data, mt_seed0, np_random_global, pc, error, timeseries_extractor,
          subjects_timeseries, subjects_timeseries_with_confounds, connectivity,
          connectivity_matrices, connectivity_coefs, classes_binary, cv, svc,
          iter_for_prediction, scores, connectivity_coefs2, iter_for_prediction2,
          scores2, printed, yielded, attempts>>

(***************************************************************************)
(* Bounds of the model.                                                    *)
(***************************************************************************)
\* Largest cohort (the notebook fetches 146 subjects).
MaxSubj == 20
\* Cohorts up to this size are taken with every arrangement of the two
\* subject types; larger ones with the controls first.
MaxAny == 3
\* Number of splits (the notebook sets n_iter = 100).
n_iter == 3
\* Number of atlas regions (the notebook takes the 122-region BASC scale).
Regions == 2
\* Number of states of the random generator.
RngMod == 4
\* Where matrices are the input, their entries are drawn from this set.
MatrixEntries == {0, 1}
\* Largest cohort whose loops are run in every order.
MaxAnyOrder == 5

NoError == [stage |-> "none", index |-> 0, what |-> "none"]

(***************************************************************************)
(* Small helpers.                                                          *)
(***************************************************************************)
Range(s) == {s[i] : i \in DOMAIN s}

Min(S) == CHOOSE x \in S : \A y \in S : x <= y

RECURSIVE SumOver(_, _)
\* The sum of f[x] over the finite set S.
SumOver(S, f) ==
    IF S = {} THEN 0
    ELSE LET x == CHOOSE y \in S : TRUE IN f[x] + SumOver(S \ {x}, f)

RECURSIVE SortedSeq(_)
\* The elements of a finite set of integers in increasing order.
SortedSeq(S) ==
    IF S = {} THEN <<>>
    ELSE LET m == Min(S) IN <<m>> \o SortedSeq(S \ {m})

\* ceil(a / b) for a >= 0, b > 0.
CeilDiv(a, b) == (a + b - 1) \div b

RegionPairs == (1 .. Regions) \X (1 .. Regions)

IsSymmetric(M) == \A p \in RegionPairs : M[p] = M[<<p[2], p[1]>>]

(***************************************************************************)
(* The dataset provider: fetch_cobre returns parallel arrays of functional *)
(* images, confounds and phenotypes.  An image holds one raw value per     *)
(* region, a confound one drift value.                                     *)
(***************************************************************************)
SubjectTypes == {"Control", "Patient"}

\* The raw data of subject i: a function of the subject and its type, so
\* that subjects differ and the two types differ.
Voxels(i, type) ==
    [r \in 1 .. Regions |->
        ((i + r) % 3) - 1 + (IF type = "Patient" /\ r = 1 THEN 3 ELSE 0)]

Bunch(types) ==
    [func       |-> [i \in 1 .. Len(types) |-> [subject |-> i, vox |-> Voxels(i, types[i])]],
     confounds  |-> [i \in 1 .. Len(types) |-> [subject |-> i, drift |-> i % 2]],
     phenotypic |-> [i \in 1 .. Len(types) |-> [subject |-> i, subject_type |-> types[i]]]]

\* Cohorts of every size up to MaxAny in every arrangement of types, and of
\* every size up to MaxSubj with k controls followed by patients, or with
\* patients and controls in turn.
CohortTypes ==
    UNION {[1 .. n -> SubjectTypes] : n \in 1 .. MaxAny}
    \cup UNION {{[i \in 1 .. n |-> IF i <= k THEN "Control" ELSE "Patient"] :
                    k \in 0 .. n} : n \in 1 .. MaxSubj}
    \cup {[i \in 1 .. n |-> IF i % 2 = 1 THEN "Patient" ELSE "Control"] :
             n \in 1 .. MaxSubj}

func_imgs == cobre_data.func
confounds == cobre_data.confounds
phenotypes == cobre_data.phenotypic
NSubjects == Len(func_imgs)

(***************************************************************************)
(* NiftiLabelsMasker.fit_transform(img, confounds): fit() prepares the     *)
(* masker for the atlas, transform() extracts one signal per region and    *)
(* removes the confounds; memory='nilearn_cache' records the call.         *)
(***************************************************************************)
NiftiLabelsMasker ==
    [labels_img |-> "scale122", smoothing_fwhm |-> 6, standardize |-> TRUE,
     detrend |-> TRUE, memory |-> {}, fitted |-> FALSE]

\* fit_transform(img) without the confounds argument: confounds=None.
NoConfounds == [subject |-> 0, drift |-> 0]

\* A masker whose cache is keyed by the image alone: an image extracted
\* before comes back with the confounds of that earlier call.
fit_transform_cached_by_image(extractor, func_img, confound) ==
    LET hits == {m \in extractor.memory : m[1] = func_img.subject}
        hit  == CHOOSE m \in hits : \A o \in hits : m[2] <= o[2]
        used == IF hits = {} THEN confound
                ELSE IF hit[2] = 0 THEN [subject |-> 0, drift |-> 0]
                ELSE confound
    IN  [img       |-> func_img.subject,
         confounds |-> confound.subject,
         atlas     |-> extractor.labels_img,
         signals   |-> [r \in 1 .. Regions |-> func_img.vox[r] - used.drift]]

\* The signals of one subject: they depend on the image, the confounds and
\* the atlas only, not on what the masker extracted before.
fit_transform(extractor, func_img, confound) ==
    [img       |-> func_img.subject,
     confounds |-> confound.subject,
     atlas     |-> extractor.labels_img,
     signals   |-> [r \in 1 .. Regions |-> func_img.vox[r] - confound.drift]]

\* The masker after the call: fitted, and the call memoized.
Fitted(extractor, func_img, confound) ==
    [extractor EXCEPT
        !.fitted = TRUE,
        !.memory = @ \cup {<<func_img.subject, confound.subject>>}]

(***************************************************************************)
(* ConnectivityMeasure(kind, cov_estimator=LedoitWolf(assume_centered))    *)
(* .fit_transform(subjects): one symmetric matrix per subject, in the      *)
(* order of the subjects.                                                  *)
(***************************************************************************)
ConnectivityMeasure(kind) ==
    [kind |-> kind, cov_estimator |-> "LedoitWolf"]

Sign(x) == IF x > 0 THEN 1 ELSE IF x < 0 THEN -1 ELSE 0

\* The covariance of centred signals.
Covariance(signals) == [p \in RegionPairs |-> signals[p[1]] * signals[p[2]]]

\* The covariance scaled to a unit diagonal.
Correlation(signals) ==
    [p \in RegionPairs |->
        IF p[1] = p[2] THEN 1 ELSE Sign(signals[p[1]]) * Sign(signals[p[2]])]

\* The sum of the subjects' covariances: the group mean, times the group size.
GroupSum(subjects) ==
    [p \in RegionPairs |->
        SumOver(DOMAIN subjects, [i \in DOMAIN subjects |-> Covariance(subjects[i].signals)[p]])]

\* The displacement of a subject's covariance from the group mean, times
\* the group size: it depends on every subject of the group.
Tangent(subjects, group, i) ==
    [p \in RegionPairs |-> Len(subjects) * Covariance(subjects[i].signals)[p] - group[p]]

ConnectivityFitTransform(estimator, subjects) ==
    LET group == GroupSum(subjects)
    IN  [i \in 1 .. Len(subjects) |->
            IF estimator.kind = "tangent" THEN Tangent(subjects, group, i)
            ELSE Correlation(subjects[i].signals)]

(***************************************************************************)
(* nilearn.connectome.sym_to_vec: the lower triangle of each matrix, row   *)
(* by row, the diagonal divided by sqrt(2).  [v, e] is v * sqrt(2)^e.      *)
(***************************************************************************)
\* The (row, column) of the lower triangle, diagonal included, in row-major order.
TrilPairs ==
    LET codes == {a * (Regions + 1) + b : a \in 1 .. Regions, b \in 1 .. Regions}
        low   == {c \in codes : c % (Regions + 1) <= c \div (Regions + 1)
                                 /\ c % (Regions + 1) >= 1}
        s     == SortedSeq(low)
    IN  [k \in 1 .. Len(s) |-> <<s[k] \div (Regions + 1), s[k] % (Regions + 1)>>]

\* sym_to_vec(..., discard_diagonal=True): the strict lower triangle only.
sym_to_vec_one_discard_diagonal(M) ==
    LET strict == SelectSeq(TrilPairs, LAMBDA p : p[1] # p[2])
    IN  [k \in 1 .. Len(strict) |-> [v |-> M[strict[k]], e |-> 0]]

\* The symmetric matrix of a vector of R(R+1)/2 coefficients: the inverse
\* the Vectorizer's contract names (nilearn's vec_to_sym_matrix), which
\* puts the coefficients back into the two triangles and multiplies the
\* diagonal by sqrt(2).
matrix_from_vector(vec, R) ==
    [p \in (1 .. R) \X (1 .. R) |->
        LET row == IF p[1] >= p[2] THEN p[1] ELSE p[2]
            col == IF p[1] >= p[2] THEN p[2] ELSE p[1]
            x   == vec[(row * (row - 1)) \div 2 + col]
            y   == IF row = col THEN [v |-> x.v, e |-> x.e + 1] ELSE x
        IN  IF y.e = 0 THEN y.v ELSE y]

sym_to_vec_one(M) ==
    [k \in 1 .. Len(TrilPairs) |->
        IF TrilPairs[k][1] = TrilPairs[k][2]
        THEN [v |-> M[TrilPairs[k]], e |-> -1]
        ELSE [v |-> M[TrilPairs[k]], e |-> 0]]

sym_to_vec(matrices) == [i \in 1 .. Len(matrices) |-> sym_to_vec_one(matrices[i])]

(***************************************************************************)
(* numpy.unique(classes, return_inverse=True): each subject's label is the *)
(* position (from 0) of its subject type among the sorted distinct types.  *)
(***************************************************************************)
\* The subject types in sorted order.
SortedTypes == <<"Control", "Patient">>

UniqueInverse(classes) ==
    LET uniq == SelectSeq(SortedTypes, LAMBDA t : t \in Range(classes))
    IN  [i \in 1 .. Len(classes) |->
            (CHOOSE k \in 1 .. Len(uniq) : uniq[k] = classes[i]) - 1]

(***************************************************************************)
(* sklearn.model_selection.StratifiedShuffleSplit(n_splits, test_size,     *)
(* random_state).split(X, y).                                              *)
(***************************************************************************)
StratifiedShuffleSplit(n_splits, test_size, random_state) ==
    [n_splits |-> n_splits, test_size |-> test_size, random_state |-> random_state]

\* check_random_state(None): numpy's global RandomState, shared by every
\* caller.
check_random_state_global(seed, global) == [obj |-> "global", state |-> global]

\* check_random_state(seed) for an integer seed: a new RandomState(seed),
\* an object of the caller's own.
check_random_state(seed, global) == [obj |-> "own", state |-> mt_seed0]

\* The state of a generator object, and the object after d more draws.
RngState(rng, global) == IF rng.obj = "global" THEN global ELSE rng.state

RngAdvance(rng, global, d) ==
    [rng EXCEPT !.state = (RngState(rng, global) + d) % RngMod]

\* _validate_shuffle_split: a float test_size takes ceil(test_size * n)
\* samples, the train size (not given) is the complement.
n_test_of(splitter, n) == CeilDiv(splitter.test_size[1] * n, splitter.test_size[2])

n_train_of(splitter, n) == n - n_test_of(splitter, n)

ClassesOf(y) == Range(y)

class_counts(y) == [c \in ClassesOf(y) |-> Cardinality({i \in DOMAIN y : y[i] = c})]

\* SplitCheck without the check of the least populated class.
SplitCheck_no_minimum(splitter, y) ==
    IF n_train_of(splitter, Len(y)) < Cardinality(ClassesOf(y))
    THEN "The train_size should be greater or equal to the number of classes"
    ELSE IF n_test_of(splitter, Len(y)) < Cardinality(ClassesOf(y))
    THEN "The test_size should be greater or equal to the number of classes"
    ELSE "ok"

\* The checks _iter_indices makes before the first split: "ok" or the
\* ValueError raised.
SplitCheck(splitter, y) ==
    IF \E c \in ClassesOf(y) : class_counts(y)[c] < 2
    THEN "The least populated class in y has only 1 member"
    ELSE IF n_train_of(splitter, Len(y)) < Cardinality(ClassesOf(y))
    THEN "The train_size should be greater or equal to the number of classes"
    ELSE IF n_test_of(splitter, Len(y)) < Cardinality(ClassesOf(y))
    THEN "The test_size should be greater or equal to the number of classes"
    ELSE "ok"

\* _approximate_mode(class_counts, n_draws, rng): each class gets the floor
\* of its share of n_draws, and the draws left over go to the classes with
\* the largest remainders, ties broken by the generator.
RECURSIVE AddByRemainder(_, _, _, _, _)
AddByRemainder(floored, remainder, left, need, draw) ==
    IF need = 0 \/ left = {} THEN floored
    ELSE LET top  == {c \in left : \A d \in left : remainder[d] <= remainder[c]}
             inds == SortedSeq(top)
             now  == IF Len(inds) < need THEN Len(inds) ELSE need
             \* rng.choice(inds, size=now, replace=False)
             pick == {inds[((draw + j) % Len(inds)) + 1] : j \in 0 .. now - 1}
         IN  AddByRemainder([c \in DOMAIN floored |->
                                IF c \in pick THEN floored[c] + 1 ELSE floored[c]],
                            remainder, left \ top, need - now, draw)

\* The draws shared out without regard to the classes' proportions: the
\* first class is served first (a plain, unstratified split).
approximate_mode_unstratified(counts, n_draws, draw) ==
    LET first == Min(DOMAIN counts)
        given == IF counts[first] < n_draws THEN counts[first] ELSE n_draws
    IN  [c \in DOMAIN counts |-> IF c = first THEN given ELSE n_draws - given]

approximate_mode(counts, n_draws, draw) ==
    LET total     == SumOver(DOMAIN counts, counts)
        floored   == [c \in DOMAIN counts |-> (counts[c] * n_draws) \div total]
        remainder == [c \in DOMAIN counts |-> (counts[c] * n_draws) % total]
    IN  AddByRemainder(floored, remainder, DOMAIN counts,
                       n_draws - SumOver(DOMAIN counts, floored), draw)

\* The indices of class c in increasing order (a stable argsort of y).
class_indices(y, c) == SortedSeq({i \in DOMAIN y : y[i] = c})

\* rng.permutation(k): the positions 1 .. k in the order the draw gives.
permutation(k, draw) == [j \in 1 .. k |-> ((j - 1 + draw) % k) + 1]

\* SplitAt with the test slice taken one position early: it starts at the
\* last train member.
SplitAt_overlap(splitter, y, s) ==
    LET counts == class_counts(y)
        n_i    == approximate_mode(counts, n_train_of(splitter, Len(y)), s)
        rest   == [c \in DOMAIN counts |-> counts[c] - n_i[c]]
        t_i    == approximate_mode(rest, n_test_of(splitter, Len(y)), s + 1)
        perm(c) == LET p == permutation(counts[c], s + 2 + c)
                   IN  [j \in 1 .. counts[c] |-> class_indices(y, c)[p[j]]]
    IN  [train |-> UNION {{perm(c)[j] : j \in 1 .. n_i[c]} : c \in DOMAIN counts},
         test  |-> UNION {{perm(c)[j] : j \in {m \in n_i[c] .. (n_i[c] + t_i[c] - 1) : m >= 1}} :
                             c \in DOMAIN counts}]

\* One iteration of _iter_indices from generator state s: per class the
\* first n_i permuted members train, the next t_i test.
SplitAt(splitter, y, s) ==
    LET counts == class_counts(y)
        n_i    == approximate_mode(counts, n_train_of(splitter, Len(y)), s)
        rest   == [c \in DOMAIN counts |-> counts[c] - n_i[c]]
        t_i    == approximate_mode(rest, n_test_of(splitter, Len(y)), s + 1)
        perm(c) == LET p == permutation(counts[c], s + 2 + c)
                   IN  [j \in 1 .. counts[c] |-> class_indices(y, c)[p[j]]]
    IN  [train |-> UNION {{perm(c)[j] : j \in 1 .. n_i[c]} : c \in DOMAIN counts},
         test  |-> UNION {{perm(c)[j] : j \in (n_i[c] + 1) .. (n_i[c] + t_i[c])} :
                             c \in DOMAIN counts}]

\* The draws one iteration makes: two tie breaks, a permutation per class
\* and the shuffles of train and of test.
DrawsPerSplit(y) == 4 + Cardinality(ClassesOf(y))

\* cv.split(X, y): a generator that has done nothing yet.
NewGenerator == [started |-> FALSE, count |-> 0, rng |-> [obj |-> "none", state |-> 0]]

EmptySplit == [train |-> {}, test |-> {}]

\* next(generator): the first call makes the checks and seeds the
\* generator's RandomState; each call yields a split until n_splits are out.
GeneratorNext(gen, splitter, y, global) ==
    IF ~gen.started /\ SplitCheck(splitter, y) # "ok"
    THEN [outcome |-> "raise", what |-> SplitCheck(splitter, y),
          split |-> EmptySplit, gen |-> gen]
    ELSE LET g == IF gen.started THEN gen
                  ELSE [gen EXCEPT !.started = TRUE,
                                   !.rng = check_random_state(splitter.random_state, global)]
         IN  IF g.count = splitter.n_splits
             THEN [outcome |-> "stop", what |-> "StopIteration",
                   split |-> EmptySplit, gen |-> g]
             ELSE [outcome |-> "yield", what |-> "ok",
                   split |-> SplitAt(splitter, y, RngState(g.rng, global)),
                   gen |-> [g EXCEPT !.count = @ + 1,
                                     !.rng = RngAdvance(g.rng, global, DrawsPerSplit(y))]]

(***************************************************************************)
(* sklearn.svm.LinearSVC and cross_val_score(estimator, X, y,              *)
(* scoring='roc_auc', cv=[(train, test)]): a clone of the estimator is     *)
(* fitted on the train rows and its decision values on the test rows are   *)
(* scored; one score per split of cv.                                      *)
(***************************************************************************)
LinearSVC(penalty, random_state) ==
    [penalty |-> penalty, random_state |-> random_state, fitted |-> FALSE]

\* clone(estimator): the parameters, none of what a fit has learnt.
clone(estimator) == [estimator EXCEPT !.fitted = FALSE]

\* The weights a fit on the train rows gives: the linear combination of the
\* train rows with every dual coefficient at its bound C = 1, signed by the
\* class.  fit() starts afresh: nothing of the estimator's past enters.
FitCoef(estimator, X, y, train) ==
    [k \in 1 .. Len(TrilPairs) |->
        SumOver(train, [t \in train |-> (IF y[t] = 1 THEN 1 ELSE -1) * X[t][k].v])]

\* Twice the decision value w . x of row j (the entries at position k carry
\* the same power e of sqrt(2) in w and in x, and 2 * sqrt(2)^(2e) = 2^(e+1)).
Decision2(coef, X, j) ==
    SumOver(1 .. Len(TrilPairs),
            [k \in 1 .. Len(TrilPairs) |->
                coef[k] * X[j][k].v * (IF X[j][k].e = -1 THEN 1 ELSE 2)])

\* roc_auc_score: the share of (positive, negative) test pairs the decision
\* values order rightly, a tie counting half; <<numerator, denominator>>.
roc_auc(y, dec, test) ==
    LET pos   == {j \in test : y[j] = 1}
        neg   == {j \in test : y[j] # 1}
        right == {q \in pos \X neg : dec[q[1]] > dec[q[2]]}
        ties  == {q \in pos \X neg : dec[q[1]] = dec[q[2]]}
    IN  <<2 * Cardinality(right) + Cardinality(ties),
          2 * Cardinality(pos) * Cardinality(neg)>>

\* What cross_val_score raises on a split, or "ok": the fit needs two
\* classes in the train rows, the ROC curve two classes in the test rows.
CrossValError(X, y, split) ==
    IF Cardinality({y[t] : t \in split.train}) < 2
    THEN "This solver needs samples of at least 2 classes in the data"
    ELSE IF Cardinality({y[j] : j \in split.test}) < 2
    THEN "Only one class present in y_true. ROC AUC score is not defined in that case."
    ELSE "ok"

\* cross_val_score without the cv argument: the default 3 folds, 3 scores.
cross_val_score_default_cv(estimator, X, y, split) ==
    LET est  == clone(estimator)
        coef == FitCoef(est, X, y, split.train)
        dec  == [j \in split.test |-> Decision2(coef, X, j)]
    IN  <<roc_auc(y, dec, split.test), roc_auc(y, dec, split.test),
          roc_auc(y, dec, split.test)>>

\* The array cross_val_score returns: one score for the one split given.
cross_val_score(estimator, X, y, split) ==
    LET est  == clone(estimator)
        coef == FitCoef(est, X, y, split.train)
        dec  == [j \in split.test |-> Decision2(coef, X, j)]
    IN  <<roc_auc(y, dec, split.test)>>

(***************************************************************************)
(* scores.mean() and scores.std() of the summary lines, as fractions over  *)
(* a common denominator (the variance stands for its root, the std).       *)
(***************************************************************************)
RECURSIVE Gcd(_, _)
Gcd(a, b) == IF b = 0 THEN a ELSE Gcd(b, a % b)

RECURSIVE LcmOf(_, _)
\* The least common multiple of the denominators of scores[1 .. k].
LcmOf(sc, k) ==
    IF k = 0 THEN 1
    ELSE LET l == LcmOf(sc, k - 1) IN (l * sc[k][1][2]) \div Gcd(l, sc[k][1][2])

Summary(kind, sc) ==
    LET D    == LcmOf(sc, Len(sc))
        A    == [i \in 1 .. Len(sc) |-> sc[i][1][1] * (D \div sc[i][1][2])]
        sum  == SumOver(DOMAIN A, A)
        sum2 == SumOver(DOMAIN A, [i \in DOMAIN A |-> A[i] * A[i]])
    IN  [kind |-> kind, n |-> Len(sc),
         mean |-> <<sum, Len(sc) * D>>,
         var  |-> <<Len(sc) * sum2 - sum * sum, Len(sc) * Len(sc) * D * D>>]

(***************************************************************************)
(* The notebook.                                                           *)
(***************************************************************************)
Init ==
    /\ cobre_data \in {Bunch(t) : t \in CohortTypes}
    /\ mt_seed0 \in 0 .. RngMod - 1
    /\ np_random_global = (mt_seed0 + 1) % RngMod
    /\ pc = "extract"
    /\ error = NoError
    /\ timeseries_extractor = NiftiLabelsMasker
    /\ subjects_timeseries = <<>>
    /\ subjects_timeseries_with_confounds = <<>>
    /\ connectivity = ConnectivityMeasure("unbound")
    /\ connectivity_matrices = <<>>
    /\ connectivity_coefs = <<>>
    /\ classes_binary = <<>>
    /\ cv = StratifiedShuffleSplit(0, <<0, 1>>, 0)
    /\ svc = LinearSVC("unbound", 0)
    /\ iter_for_prediction = NewGenerator
    /\ scores = <<>>
    /\ connectivity_coefs2 = <<>>
    /\ iter_for_prediction2 = NewGenerator
    /\ scores2 = <<>>
    /\ printed = <<>>
    /\ yielded = <<<<>>, <<>>>>
    /\ attempts = <<>>

\* An uncaught exception: the run ends.
Raise(stage, index, what) ==
    /\ pc' = "failed"
    /\ error' = [stage |-> stage, index |-> index, what |-> what]

inputs == <<cobre_data, mt_seed0>>
extraction == <<timeseries_extractor, subjects_timeseries, subjects_timeseries_with_confounds>>
estimation == <<connectivity, connectivity_matrices>>
experiment1 == <<connectivity_coefs, iter_for_prediction, scores>>
experiment2 == <<connectivity_coefs2, iter_for_prediction2, scores2>>
validator == <<classes_binary, cv, svc>>

\* for func_img in cobre_data.func: one iteration that returns.
Extract ==
    /\ pc = "extract"
    /\ Len(subjects_timeseries) < Len(cobre_data.func)
    /\ LET func_img == cobre_data.func[Len(subjects_timeseries) + 1]
       IN  /\ subjects_timeseries' =
                 Append(subjects_timeseries,
                        fit_transform(timeseries_extractor, func_img, NoConfounds))
           /\ timeseries_extractor' = Fitted(timeseries_extractor, func_img, NoConfounds)
           /\ attempts' = Append(attempts, <<"extract", func_img.subject>>)
    /\ UNCHANGED <<inputs, np_random_global, pc, error, subjects_timeseries_with_confounds,
                   estimation, experiment1, experiment2, validator, printed, yielded>>

\* The iteration with the exception caught and logged: the loop goes on
\* to try the subject again.
ExtractRaise_caught ==
    /\ pc = "extract"
    /\ Len(subjects_timeseries) < Len(cobre_data.func)
    /\ error = NoError
    /\ error' = [stage |-> "extract", index |-> Len(subjects_timeseries) + 1,
                 what |-> "DataShapeError"]
    /\ attempts' = Append(attempts, <<"extract", Len(subjects_timeseries) + 1>>)
    /\ UNCHANGED <<inputs, np_random_global, pc, extraction, estimation, experiment1,
                   experiment2, validator, printed, yielded>>

\* One iteration in which fit_transform raises (the image does not match
\* the atlas): nothing catches it.
ExtractRaise ==
    /\ pc = "extract"
    /\ Len(subjects_timeseries) < Len(cobre_data.func)
    /\ Raise("extract", Len(subjects_timeseries) + 1, "DataShapeError")
    /\ attempts' = Append(attempts, <<"extract", Len(subjects_timeseries) + 1>>)
    /\ UNCHANGED <<inputs, np_random_global, extraction, estimation, experiment1,
                   experiment2, validator, printed, yielded>>

\* The loop is exhausted.
ExtractDone ==
    /\ pc = "extract"
    /\ Len(subjects_timeseries) = Len(cobre_data.func)
    /\ pc' = "plot"
    /\ UNCHANGED <<inputs, np_random_global, error, extraction, estimation, experiment1,
                   experiment2, validator, printed, yielded, attempts>>

\* plt.plot(subjects_timeseries[2]): the third subject's signals.
PlotTimeseries ==
    /\ pc = "plot"
    /\ IF Len(subjects_timeseries) < 3
       THEN Raise("plot", 3, "IndexError")
       ELSE pc' = "extract_confounds" /\ UNCHANGED error
    /\ UNCHANGED <<inputs, np_random_global, extraction, estimation, experiment1,
                   experiment2, validator, printed, yielded, attempts>>

\* The loop over the images paired with the confounds in reverse order.
ExtractConfounds_reversed ==
    /\ pc = "extract_confounds"
    /\ Len(subjects_timeseries_with_confounds) < Min({Len(func_imgs), Len(confounds)})
    /\ LET i        == Len(subjects_timeseries_with_confounds) + 1
           func_img == func_imgs[i]
           confound == confounds[Len(confounds) + 1 - i]
       IN  /\ subjects_timeseries_with_confounds' =
                 Append(subjects_timeseries_with_confounds,
                        fit_transform(timeseries_extractor, func_img, confound))
           /\ timeseries_extractor' = Fitted(timeseries_extractor, func_img, confound)
           /\ attempts' = Append(attempts, <<"extract_confounds", func_img.subject>>)
    /\ UNCHANGED <<inputs, np_random_global, pc, error, subjects_timeseries, estimation,
                   experiment1, experiment2, validator, printed, yielded>>

\* for func_img, confound in zip(func_imgs, confounds): one iteration.
ExtractConfounds ==
    /\ pc = "extract_confounds"
    /\ Len(subjects_timeseries_with_confounds) < Min({Len(func_imgs), Len(confounds)})
    /\ LET i        == Len(subjects_timeseries_with_confounds) + 1
           func_img == func_imgs[i]
           confound == confounds[i]
       IN  /\ subjects_timeseries_with_confounds' =
                 Append(subjects_timeseries_with_confounds,
                        fit_transform(timeseries_extractor, func_img, confound))
           /\ timeseries_extractor' = Fitted(timeseries_extractor, func_img, confound)
           /\ attempts' = Append(attempts, <<"extract_confounds", func_img.subject>>)
    /\ UNCHANGED <<inputs, np_random_global, pc, error, subjects_timeseries, estimation,
                   experiment1, experiment2, validator, printed, yielded>>

\* One iteration in which fit_transform raises (the image does not match
\* the atlas, or the confounds do not match the image's timepoints).
ExtractConfoundsRaise ==
    /\ pc = "extract_confounds"
    /\ Len(subjects_timeseries_with_confounds) < Min({Len(func_imgs), Len(confounds)})
    /\ \E what \in {"DataShapeError", "ConfoundAlignmentError"} :
          Raise("extract_confounds", Len(subjects_timeseries_with_confounds) + 1, what)
    /\ attempts' = Append(attempts, <<"extract_confounds",
                                      Len(subjects_timeseries_with_confounds) + 1>>)
    /\ UNCHANGED <<inputs, np_random_global, extraction, estimation, experiment1,
                   experiment2, validator, printed, yielded>>

\* The loop is exhausted; plt.plot(subjects_timeseries_with_confounds[2]).
ExtractConfoundsDone ==
    /\ pc = "extract_confounds"
    /\ Len(subjects_timeseries_with_confounds) = Min({Len(func_imgs), Len(confounds)})
    /\ IF Len(subjects_timeseries_with_confounds) < 3
       THEN Raise("plot", 3, "IndexError")
       ELSE pc' = "correlation" /\ UNCHANGED error
    /\ UNCHANGED <<inputs, np_random_global, extraction, estimation, experiment1,
                   experiment2, validator, printed, yielded, attempts>>

\* connectivity = ConnectivityMeasure(kind='correlation', ...);
\* connectivity_matrices = connectivity.fit_transform(...).
EstimateCorrelation ==
    /\ pc = "correlation"
    /\ connectivity' = ConnectivityMeasure("correlation")
    /\ connectivity_matrices' =
          ConnectivityFitTransform(ConnectivityMeasure("correlation"),
                                   subjects_timeseries_with_confounds)
    /\ pc' = "sym_to_vec"
    /\ UNCHANGED <<inputs, np_random_global, error, extraction, experiment1, experiment2,
                   validator, printed, yielded, attempts>>

\* The estimator is bound, fit_transform raises (a covariance it cannot use).
EstimateCorrelationRaise ==
    /\ pc = "correlation"
    /\ connectivity' = ConnectivityMeasure("correlation")
    /\ Raise("correlation", 0, "SingularCovarianceError")
    /\ UNCHANGED <<inputs, np_random_global, extraction, connectivity_matrices,
                   experiment1, experiment2, validator, printed, yielded, attempts>>

\* connectivity_coefs = sym_to_vec(connectivity_matrices).
Vectorize ==
    /\ pc = "sym_to_vec"
    /\ connectivity_coefs' = sym_to_vec(connectivity_matrices)
    /\ pc' = "cross_validator"
    /\ UNCHANGED <<inputs, np_random_global, error, extraction, estimation,
                   iter_for_prediction, scores, experiment2, validator, printed,
                   yielded, attempts>>

\* classes_binary from the phenotypes; cv = StratifiedShuffleSplit(...).
CrossValidator ==
    /\ pc = "cross_validator"
    /\ classes_binary' =
          UniqueInverse([i \in 1 .. Len(phenotypes) |-> phenotypes[i].subject_type])
    /\ cv' = StratifiedShuffleSplit(n_iter, <<1, 4>>, 0)
    /\ pc' = "svc"
    /\ UNCHANGED <<inputs, np_random_global, error, extraction, estimation, experiment1,
                   experiment2, svc, printed, yielded, attempts>>

\* svc = LinearSVC(penalty='l2', random_state=0);
\* iter_for_prediction = cv.split(func_imgs, classes_binary); scores = [].
NewSVC ==
    /\ pc = "svc"
    /\ svc' = LinearSVC("l2", 0)
    /\ iter_for_prediction' = NewGenerator
    /\ scores' = <<>>
    /\ pc' = "score"
    /\ UNCHANGED <<inputs, np_random_global, error, extraction, estimation,
                   connectivity_coefs, experiment2, classes_binary, cv, printed,
                   yielded, attempts>>

\* for index, (train_index, test_index) in enumerate(iter_for_prediction): one
\* next() of the generator and, when it yields a split, the loop body.
\* Nothing catches what next() or cross_val_score raises.
Score ==
    /\ pc = "score"
    /\ LET nx  == GeneratorNext(iter_for_prediction, cv, classes_binary, np_random_global)
           bad == CrossValError(connectivity_coefs, classes_binary, nx.split)
       IN  IF nx.outcome = "raise"
           THEN /\ Raise("split", iter_for_prediction.count + 1, nx.what)
                /\ UNCHANGED <<iter_for_prediction, scores, np_random_global, yielded, attempts>>
           ELSE IF nx.outcome = "stop"
           THEN /\ pc' = "report"
                /\ iter_for_prediction' = nx.gen
                /\ UNCHANGED <<error, scores, np_random_global, yielded, attempts>>
           ELSE /\ iter_for_prediction' = nx.gen
                /\ np_random_global' =
                      IF nx.gen.rng.obj = "global" THEN nx.gen.rng.state
                      ELSE np_random_global
                /\ yielded' = [yielded EXCEPT ![1] = Append(@, nx.split)]
                /\ attempts' = Append(attempts, <<"score", nx.gen.count>>)
                /\ IF bad = "ok"
                   THEN /\ scores' = Append(scores, cross_val_score(svc, connectivity_coefs,
                                                                classes_binary, nx.split))
                        /\ UNCHANGED <<pc, error>>
                   ELSE /\ Raise("score", nx.gen.count, bad)
                        /\ UNCHANGED scores
    /\ UNCHANGED <<inputs, extraction, estimation, connectivity_coefs, experiment2, validator, printed>>

\* scores = np.asarray(scores); print the mean and the std of the scores.
Report ==
    /\ pc = "report"
    /\ printed' = Append(printed, Summary("correlation", scores))
    /\ pc' = "tangent"
    /\ UNCHANGED <<inputs, np_random_global, error, extraction, estimation, experiment1,
                   experiment2, validator, yielded, attempts>>

\* connectivity = ConnectivityMeasure(kind='tangent', ...);
\* connectivity_matrices = connectivity.fit_transform(...).
EstimateTangent ==
    /\ pc = "tangent"
    /\ connectivity' = ConnectivityMeasure("tangent")
    /\ connectivity_matrices' =
          ConnectivityFitTransform(ConnectivityMeasure("tangent"),
                                   subjects_timeseries_with_confounds)
    /\ pc' = "sym_to_vec2"
    /\ UNCHANGED <<inputs, np_random_global, error, extraction, experiment1, experiment2,
                   validator, printed, yielded, attempts>>

\* The estimator is rebound, fit_transform raises.
EstimateTangentRaise ==
    /\ pc = "tangent"
    /\ connectivity' = ConnectivityMeasure("tangent")
    /\ Raise("tangent", 0, "SingularCovarianceError")
    /\ UNCHANGED <<inputs, np_random_global, extraction, connectivity_matrices,
                   experiment1, experiment2, validator, printed, yielded, attempts>>

\* The second vectorization assigned to the first experiment's name.
Vectorize2_rebinds_coefs ==
    /\ pc = "sym_to_vec2"
    /\ connectivity_coefs' = sym_to_vec(connectivity_matrices)
    /\ connectivity_coefs2' = sym_to_vec(connectivity_matrices)
    /\ iter_for_prediction2' = NewGenerator
    /\ scores2' = <<>>
    /\ pc' = "score2"
    /\ UNCHANGED <<inputs, np_random_global, error, extraction, estimation,
                   iter_for_prediction, scores, validator, printed, yielded, attempts>>

\* connectivity_coefs2 = sym_to_vec(connectivity_matrices);
\* iter_for_prediction2 = cv.split(func_imgs, classes_binary); scores2 = [].
Vectorize2 ==
    /\ pc = "sym_to_vec2"
    /\ connectivity_coefs2' = sym_to_vec(connectivity_matrices)
    /\ iter_for_prediction2' = NewGenerator
    /\ scores2' = <<>>
    /\ pc' = "score2"
    /\ UNCHANGED <<inputs, np_random_global, error, extraction, estimation, experiment1,
                   validator, printed, yielded, attempts>>

\* for index, (train_index, test_index) in enumerate(iter_for_prediction2): one
\* next() of the generator and, when it yields a split, the loop body.
\* Nothing catches what next() or cross_val_score raises.
Score2 ==
    /\ pc = "score2"
    /\ LET nx  == GeneratorNext(iter_for_prediction2, cv, classes_binary, np_random_global)
           bad == CrossValError(connectivity_coefs2, classes_binary, nx.split)
       IN  IF nx.outcome = "raise"
           THEN /\ Raise("split", iter_for_prediction2.count + 1, nx.what)
                /\ UNCHANGED <<iter_for_prediction2, scores2, np_random_global, yielded, attempts>>
           ELSE IF nx.outcome = "stop"
           THEN /\ pc' = "report2"
                /\ iter_for_prediction2' = nx.gen
                /\ UNCHANGED <<error, scores2, np_random_global, yielded, attempts>>
           ELSE /\ iter_for_prediction2' = nx.gen
                /\ np_random_global' =
                      IF nx.gen.rng.obj = "global" THEN nx.gen.rng.state
                      ELSE np_random_global
                /\ yielded' = [yielded EXCEPT ![2] = Append(@, nx.split)]
                /\ attempts' = Append(attempts, <<"score2", nx.gen.count>>)
                /\ IF bad = "ok"
                   THEN /\ scores2' = Append(scores2, cross_val_score(svc, connectivity_coefs2,
                                                                classes_binary, nx.split))
                        /\ UNCHANGED <<pc, error>>
                   ELSE /\ Raise("score2", nx.gen.count, bad)
                        /\ UNCHANGED scores2
    /\ UNCHANGED <<inputs, extraction, estimation, connectivity_coefs2, experiment1, validator, printed>>

\* scores2 = np.asarray(scores2); print the mean and the std of the scores.
Report2 ==
    /\ pc = "report2"
    /\ printed' = Append(printed, Summary("tangent", scores2))
    /\ pc' = "done"
    /\ UNCHANGED <<inputs, np_random_global, error, extraction, estimation, experiment1,
                   experiment2, validator, yielded, attempts>>

Next ==
    \/ Extract \/ ExtractRaise \/ ExtractDone \/ PlotTimeseries
    \/ ExtractConfounds \/ ExtractConfoundsRaise \/ ExtractConfoundsDone
    \/ EstimateCorrelation \/ EstimateCorrelationRaise \/ Vectorize
    \/ CrossValidator \/ NewSVC
    \/ Score \/ Report
    \/ EstimateTangent \/ EstimateTangentRaise \/ Vectorize2
    \/ Score2 \/ Report2

Spec == Init /\ [][Next]_vars

(***************************************************************************)
(* What the claims speak of.                                               *)
(***************************************************************************)
\* The splits the two generators have yielded so far.
Splits == UNION {Range(yielded[e]) : e \in 1 .. 2}

\* The number of subjects of each type in the cohort.
TypeCount(type) ==
    Cardinality({i \in 1 .. NSubjects : phenotypes[i].subject_type = type})

\* The number of members of class c among the indices S.
ClassIn(c, S) == Cardinality({i \in S : classes_binary[i] = c})

\* C1: every split a generator yields is a pair of disjoint sets of cohort
\* indices that together hold as many indices as the cohort has subjects.
C1_SplitPartition ==
    \A sp \in Splits :
        /\ sp.train \cap sp.test = {}
        /\ sp.train \cup sp.test \subseteq 1 .. NSubjects
        /\ Cardinality(sp.train) + Cardinality(sp.test) = NSubjects

C1_Witness ==
    /\ NSubjects >= 8
    /\ Len(yielded[1]) = n_iter
    /\ Len(yielded[2]) = n_iter
    /\ \A sp \in Splits : sp.train # {} /\ sp.test # {}

Adequate == \A type \in SubjectTypes : TypeCount(type) >= 4

\* A fraction that lies in [0, 1].
InUnitInterval(q) == q[2] > 0 /\ 0 <= q[1] /\ q[1] <= q[2]

\* C3: on a cohort with both classes adequately represented the scoring
\* loop raises nothing and ends with n_iter entries, the i-th the single
\* score of the i-th split yielded, each in [0, 1].
C3_ScoresComplete ==
    Adequate =>
        /\ error.stage \notin {"split", "score", "score2"}
        /\ \A i \in 1 .. Len(scores) :
              /\ Len(scores[i]) = 1
              /\ scores[i] = cross_val_score(svc, connectivity_coefs, classes_binary,
                                             yielded[1][i])
              /\ InUnitInterval(scores[i][1])
        /\ Len(scores) <= n_iter
        /\ pc \in {"report", "tangent", "sym_to_vec2", "score2", "report2", "done"}
              => Len(scores) = n_iter

C3_Witness ==
    /\ NSubjects = 20
    /\ TypeCount("Control") = 10
    /\ pc = "report"
    /\ Len(scores) = n_iter
    /\ \E i \in 1 .. n_iter : scores[i][1][1] \notin {0, scores[i][1][2]}

\* One class of the cohort has a single member.
OneMemberClass == \E type \in SubjectTypes : TypeCount(type) = 1

\* The cells from the first scoring loop on have been entered.
ScoringEntered == svc.penalty = "l2"

Completed == {"report", "tangent", "sym_to_vec2", "score2", "report2", "done"}

\* Both classes occur among the indices S.
BothClassesIn(S) == Cardinality({classes_binary[i] : i \in S}) = 2

\* C4: on a cohort with a one-member class the scoring loop raises at its
\* first split and collects no score, so the run never gets past the loop;
\* and on no cohort is a score collected from a split whose train or test
\* part lacks a class.
C4_OneMemberClassRaises ==
    /\ OneMemberClass =>
          /\ scores = <<>> /\ scores2 = <<>> /\ printed = <<>>
          /\ pc \notin Completed
          /\ (ScoringEntered /\ pc # "score") =>
                /\ pc = "failed"
                /\ error.stage = "split"
                /\ error.index = 1
                /\ error.what = "The least populated class in y has only 1 member"
    /\ \A e \in 1 .. 2 : \A k \in 1 .. Len(yielded[e]) :
          k <= Len(IF e = 1 THEN scores ELSE scores2) =>
              BothClassesIn(yielded[e][k].train) /\ BothClassesIn(yielded[e][k].test)

C4_Witness ==
    /\ OneMemberClass
    /\ ScoringEntered
    /\ pc = "failed"
    /\ error.stage = "split"

\* An exception has been raised.
Raised == error # NoError

\* C5 (state part): an exception leaves the run failed, a summary is
\* printed only over all n_iter scores of its experiment, and no loop body
\* is started twice for the same index.
C5_FailedIsFinal ==
    /\ Raised <=> pc = "failed"
    /\ \A r \in Range(printed) : r.n = n_iter
    /\ \A i, j \in 1 .. Len(attempts) : attempts[i] = attempts[j] => i = j
    /\ Raised /\ error.stage \in {"extract", "extract_confounds", "score", "score2"}
          => attempts[Len(attempts)] = <<error.stage, error.index>>

\* The cells in the order the notebook runs them; a failed run is past all.
Cells ==
    <<"extract", "plot", "extract_confounds", "correlation", "sym_to_vec",
      "cross_validator", "svc", "score", "report", "tangent", "sym_to_vec2",
      "score2", "report2", "done", "failed">>

\* How far the run has come: the cell, and within a loop the iterations done.
Progress ==
    (CHOOSE k \in 1 .. Len(Cells) : Cells[k] = pc) * (MaxSubj + n_iter + 1)
    + (CASE pc = "extract" -> Len(subjects_timeseries)
         [] pc = "extract_confounds" -> Len(subjects_timeseries_with_confounds)
         [] pc = "score" -> iter_for_prediction.count
         [] pc = "score2" -> iter_for_prediction2.count
         [] OTHER -> 0)

\* The guard of some action is open unless the run has ended: the cell is
\* one of the notebook's, a loop over the subjects has not overrun the
\* cohort, and next() of a generator raises, yields or stops.
CellCanRun ==
    /\ pc \in Range(Cells)
    /\ pc = "extract" => Len(subjects_timeseries) <= Len(cobre_data.func)
    /\ pc = "extract_confounds" =>
          Len(subjects_timeseries_with_confounds) <= Min({Len(func_imgs), Len(confounds)})
    /\ pc = "score" =>
          GeneratorNext(iter_for_prediction, cv, classes_binary,
                        np_random_global).outcome \in {"raise", "yield", "stop"}
    /\ pc = "score2" =>
          GeneratorNext(iter_for_prediction2, cv, classes_binary,
                        np_random_global).outcome \in {"raise", "yield", "stop"}

\* C5: every error is fatal.  After an exception no step is taken (no
\* retry, no later subject, split or stage, no summary), what C5_FailedIsFinal
\* says holds throughout, and every run ends completed or failed: each step
\* brings it nearer the end, and a step is possible until it has ended.
C5_ErrorsAreFatal ==
    /\ [](C5_FailedIsFinal /\ CellCanRun)
    /\ [][~Raised /\ Progress' > Progress]_vars

C5_Witness ==
    /\ pc = "failed"
    /\ error.stage = "extract_confounds"
    /\ error.index = 2
    /\ NSubjects > 3
    /\ Len(subjects_timeseries_with_confounds) = 1

Abs(x) == IF x < 0 THEN -x ELSE x

\* The classes are two and the cohort is not small.
BinaryCohortOf20 == NSubjects >= 20 /\ \A type \in SubjectTypes : TypeCount(type) > 0

SignalsOf(i) == fit_transform(NiftiLabelsMasker, func_imgs[i], confounds[i])

SignalsNoConfoundsOf(i) == fit_transform(NiftiLabelsMasker, func_imgs[i], NoConfounds)

AllSignals == [i \in 1 .. NSubjects |-> SignalsOf(i)]

MatricesOf(kind) == ConnectivityFitTransform(ConnectivityMeasure(kind), AllSignals)

LabelOf(i) ==
    IF phenotypes[i].subject_type = "Patient" /\ TypeCount("Control") > 0 THEN 1 ELSE 0

\* Every element of the sequence arr is what f gives for its index, and a
\* sequence that is complete has one element per subject.
AlignedWith(arr, f(_), complete) ==
    /\ Len(arr) <= NSubjects
    /\ complete => Len(arr) = NSubjects
    /\ \A i \in 1 .. Len(arr) : arr[i] = f(i)

\* C8: the per-subject arrays are aligned by subject index: element i of
\* each derives from the image, confounds and phenotype of subject i, a
\* finished array has one element per subject, and the labels are 0 or 1.
C8_AlignedBySubject ==
    /\ AlignedWith(subjects_timeseries, SignalsNoConfoundsOf,
                   pc # "extract" /\ error.stage # "extract")
    /\ AlignedWith(subjects_timeseries_with_confounds, SignalsOf,
                   /\ pc \notin {"extract", "plot", "extract_confounds"}
                   /\ error.stage \notin {"extract", "plot", "extract_confounds"})
    /\ \A i \in 1 .. Len(subjects_timeseries_with_confounds) :
          /\ subjects_timeseries_with_confounds[i].img = func_imgs[i].subject
          /\ subjects_timeseries_with_confounds[i].confounds = confounds[i].subject
          /\ subjects_timeseries_with_confounds[i].img = phenotypes[i].subject
    /\ connectivity_matrices # <<>> =>
          /\ Len(connectivity_matrices) = NSubjects
          /\ connectivity_matrices =
                MatricesOf(IF error.stage = "tangent" THEN "correlation"
                           ELSE connectivity.kind)
    /\ connectivity_coefs # <<>> =>
          /\ Len(connectivity_coefs) = NSubjects
          /\ \A i \in 1 .. NSubjects :
                connectivity_coefs[i] = sym_to_vec_one(Correlation(SignalsOf(i).signals))
    /\ connectivity_coefs2 # <<>> =>
          /\ Len(connectivity_coefs2) = NSubjects
          /\ connectivity.kind = "tangent"
          /\ \A i \in 1 .. NSubjects :
                connectivity_coefs2[i] = sym_to_vec_one(connectivity_matrices[i])
    /\ classes_binary # <<>> =>
          /\ Len(classes_binary) = NSubjects
          /\ \A i \in 1 .. NSubjects :
                classes_binary[i] \in {0, 1} /\ classes_binary[i] = LabelOf(i)

C8_Witness ==
    /\ pc = "done"
    /\ NSubjects > MaxAny
    /\ phenotypes[1].subject_type = "Patient"
    /\ phenotypes[2].subject_type = "Control"
    /\ classes_binary[1] = 1
    /\ connectivity_coefs2[1] # connectivity_coefs2[2]

\* C10 (state part): the correlation scores come from the correlation
\* vectors and the tangent scores from the tangent vectors, each over the
\* split of its index, with a classifier that has seen nothing before.
C10_ScoresFromOwnVectors ==
    /\ \A k \in 1 .. Len(scores) :
          scores[k] = cross_val_score(LinearSVC("l2", 0), connectivity_coefs,
                                      classes_binary, yielded[1][k])
    /\ \A k \in 1 .. Len(scores2) :
          scores2[k] = cross_val_score(LinearSVC("l2", 0), connectivity_coefs2,
                                       classes_binary, yielded[2][k])

\* The cells of the tangent experiment.
TangentCells == {"tangent", "sym_to_vec2", "score2", "report2"}

\* A step of the tangent experiment keeps what the correlation experiment
\* made and what both experiments share.
TangentStepFrame ==
    pc \in TangentCells =>
        /\ UNCHANGED subjects_timeseries
        /\ UNCHANGED subjects_timeseries_with_confounds
        /\ UNCHANGED classes_binary
        /\ UNCHANGED cv
        /\ UNCHANGED svc
        /\ UNCHANGED connectivity_coefs
        /\ UNCHANGED scores
        /\ UNCHANGED iter_for_prediction
        /\ SubSeq(printed', 1, 1) = SubSeq(printed, 1, 1)

\* C10: the tangent experiment leaves the timeseries, the labels, the
\* cross validator, the classifier, the correlation vectors and the
\* correlation scores as they are, and each experiment's scores come from
\* its own vectors.
C10_TangentFrame == []C10_ScoresFromOwnVectors /\ [][TangentStepFrame]_vars

C10_Witness ==
    /\ pc = "done"
    /\ scores # scores2
    /\ connectivity.kind = "tangent"
    /\ printed[1].kind = "correlation"

(***************************************************************************)
(* The Vectorizer on its own: the two sym_to_vec cells applied to one or   *)
(* two arbitrary symmetric matrices.                                       *)
(***************************************************************************)
SymmetricMatrices == {M \in [RegionPairs -> MatrixEntries] : IsSymmetric(M)}

InitVec ==
    /\ connectivity_matrices \in
          {<<M>> : M \in SymmetricMatrices}
          \cup {<<M1, M2>> : M1 \in SymmetricMatrices, M2 \in SymmetricMatrices}
    /\ pc \in {"sym_to_vec", "sym_to_vec2"}
    /\ cobre_data = Bunch([i \in 1 .. Len(connectivity_matrices) |-> "Control"])
    /\ mt_seed0 = 0
    /\ np_random_global = 1
    /\ error = NoError
    /\ timeseries_extractor = NiftiLabelsMasker
    /\ subjects_timeseries = <<>>
    /\ subjects_timeseries_with_confounds = <<>>
    /\ connectivity =
          ConnectivityMeasure(IF pc = "sym_to_vec" THEN "correlation" ELSE "tangent")
    /\ connectivity_coefs = <<>>
    /\ classes_binary = <<>>
    /\ cv = StratifiedShuffleSplit(0, <<0, 1>>, 0)
    /\ svc = LinearSVC("unbound", 0)
    /\ iter_for_prediction = NewGenerator
    /\ scores = <<>>
    /\ connectivity_coefs2 = <<>>
    /\ iter_for_prediction2 = NewGenerator
    /\ scores2 = <<>>
    /\ printed = <<>>
    /\ yielded = <<<<>>, <<>>>>
    /\ attempts = <<>>

NextVec == Vectorize \/ Vectorize2

SpecVec == InitVec /\ [][NextVec]_vars

\* The vectors the cell that has just run produced.
Vectorized ==
    IF pc = "cross_validator" THEN connectivity_coefs
    ELSE IF pc = "score2" THEN connectivity_coefs2
    ELSE <<>>

Pending ==
    [img |-> 0, confounds |-> 0, atlas |-> "pending", signals |-> [r \in 1 .. Regions |-> 0]]

PendingScore == <<>>

InitAnyOrder ==
    /\ cobre_data \in {Bunch(t) : t \in {c \in CohortTypes : Len(c) <= MaxAnyOrder}}
    /\ mt_seed0 \in 0 .. RngMod - 1
    /\ np_random_global = (mt_seed0 + 1) % RngMod
    /\ pc = "extract"
    /\ error = NoError
    /\ timeseries_extractor = NiftiLabelsMasker
    /\ subjects_timeseries = [i \in 1 .. NSubjects |-> Pending]
    /\ subjects_timeseries_with_confounds = [i \in 1 .. NSubjects |-> Pending]
    /\ connectivity = ConnectivityMeasure("unbound")
    /\ connectivity_matrices = <<>>
    /\ connectivity_coefs = <<>>
    /\ classes_binary = <<>>
    /\ cv = StratifiedShuffleSplit(0, <<0, 1>>, 0)
    /\ svc = LinearSVC("unbound", 0)
    /\ iter_for_prediction = NewGenerator
    /\ scores = <<>>
    /\ connectivity_coefs2 = <<>>
    /\ iter_for_prediction2 = NewGenerator
    /\ scores2 = <<>>
    /\ printed = <<>>
    /\ yielded = <<<<>>, <<>>>>
    /\ attempts = <<>>

\* The body of the first extraction loop for any subject not yet done.
AnyExtract ==
    /\ pc = "extract"
    /\ \E i \in 1 .. NSubjects :
          /\ subjects_timeseries[i] = Pending
          /\ subjects_timeseries' =
                [subjects_timeseries EXCEPT
                    ![i] = fit_transform(timeseries_extractor, func_imgs[i], NoConfounds)]
          /\ timeseries_extractor' = Fitted(timeseries_extractor, func_imgs[i], NoConfounds)
    /\ UNCHANGED <<inputs, np_random_global, pc, error, subjects_timeseries_with_confounds,
                   estimation, experiment1, experiment2, validator, printed, yielded,
                   attempts>>

AnyExtractDone ==
    /\ pc = "extract"
    /\ \A i \in 1 .. NSubjects : subjects_timeseries[i] # Pending
    /\ pc' = "plot"
    /\ UNCHANGED <<inputs, np_random_global, error, extraction, estimation, experiment1,
                   experiment2, validator, printed, yielded, attempts>>

\* The body of the second extraction loop for any subject not yet done.
AnyExtractConfounds ==
    /\ pc = "extract_confounds"
    /\ \E i \in 1 .. Min({Len(func_imgs), Len(confounds)}) :
          /\ subjects_timeseries_with_confounds[i] = Pending
          /\ subjects_timeseries_with_confounds' =
                [subjects_timeseries_with_confounds EXCEPT
                    ![i] = fit_transform(timeseries_extractor, func_imgs[i], confounds[i])]
          /\ timeseries_extractor' = Fitted(timeseries_extractor, func_imgs[i], confounds[i])
    /\ UNCHANGED <<inputs, np_random_global, pc, error, subjects_timeseries, estimation,
                   experiment1, experiment2, validator, printed, yielded, attempts>>

AnyExtractConfoundsDone ==
    /\ pc = "extract_confounds"
    /\ \A i \in 1 .. NSubjects : subjects_timeseries_with_confounds[i] # Pending
    /\ IF Len(subjects_timeseries_with_confounds) < 3
       THEN Raise("plot", 3, "IndexError")
       ELSE pc' = "correlation" /\ UNCHANGED error
    /\ UNCHANGED <<inputs, np_random_global, extraction, estimation, experiment1,
                   experiment2, validator, printed, yielded, attempts>>

\* next() of the first experiment's generator: a split handed out for
\* scoring, or the error the generator raises.
AnyScoreNext ==
    /\ pc = "score"
    /\ LET nx == GeneratorNext(iter_for_prediction, cv, classes_binary, np_random_global)
       IN  /\ nx.outcome # "stop"
           /\ IF nx.outcome = "raise"
              THEN /\ Raise("split", iter_for_prediction.count + 1, nx.what)
                   /\ UNCHANGED <<iter_for_prediction, scores, np_random_global, yielded>>
              ELSE /\ iter_for_prediction' = nx.gen
                   /\ np_random_global' =
                         IF nx.gen.rng.obj = "global" THEN nx.gen.rng.state
                         ELSE np_random_global
                   /\ yielded' = [yielded EXCEPT ![1] = Append(@, nx.split)]
                   /\ scores' = Append(scores, PendingScore)
                   /\ UNCHANGED <<pc, error>>
    /\ UNCHANGED <<inputs, extraction, estimation, connectivity_coefs, experiment2,
                   validator, printed, attempts>>

\* The loop body for any split handed out and not yet scored.
AnyScore ==
    /\ pc = "score"
    /\ \E k \in 1 .. Len(scores) :
          /\ scores[k] = PendingScore
          /\ LET bad == CrossValError(connectivity_coefs, classes_binary, yielded[1][k])
             IN  IF bad = "ok"
                 THEN /\ scores' = [scores EXCEPT
                                      ![k] = cross_val_score(svc, connectivity_coefs,
                                                             classes_binary, yielded[1][k])]
                      /\ UNCHANGED <<pc, error>>
                 ELSE /\ Raise("score", k, bad)
                      /\ UNCHANGED scores
    /\ UNCHANGED <<inputs, np_random_global, extraction, estimation, connectivity_coefs,
                   iter_for_prediction, experiment2, validator, printed, yielded, attempts>>

\* The generator is exhausted and every split is scored.
AnyScoreDone ==
    /\ pc = "score"
    /\ LET nx == GeneratorNext(iter_for_prediction, cv, classes_binary, np_random_global)
       IN  /\ nx.outcome = "stop"
           /\ iter_for_prediction' = nx.gen
    /\ \A k \in 1 .. Len(scores) : scores[k] # PendingScore
    /\ pc' = "report"
    /\ UNCHANGED <<inputs, np_random_global, error, extraction, estimation,
                   connectivity_coefs, scores, experiment2, validator, printed, yielded,
                   attempts>>

\* next() of the second experiment's generator.
AnyScore2Next ==
    /\ pc = "score2"
    /\ LET nx == GeneratorNext(iter_for_prediction2, cv, classes_binary, np_random_global)
       IN  /\ nx.outcome # "stop"
           /\ IF nx.outcome = "raise"
              THEN /\ Raise("split", iter_for_prediction2.count + 1, nx.what)
                   /\ UNCHANGED <<iter_for_prediction2, scores2, np_random_global, yielded>>
              ELSE /\ iter_for_prediction2' = nx.gen
                   /\ np_random_global' =
                         IF nx.gen.rng.obj = "global" THEN nx.gen.rng.state
                         ELSE np_random_global
                   /\ yielded' = [yielded EXCEPT ![2] = Append(@, nx.split)]
                   /\ scores2' = Append(scores2, PendingScore)
                   /\ UNCHANGED <<pc, error>>
    /\ UNCHANGED <<inputs, extraction, estimation, connectivity_coefs2, experiment1,
                   validator, printed, attempts>>

\* The second loop's body for any split handed out and not yet scored.
AnyScore2 ==
    /\ pc = "score2"
    /\ \E k \in 1 .. Len(scores2) :
          /\ scores2[k] = PendingScore
          /\ LET bad == CrossValError(connectivity_coefs2, classes_binary, yielded[2][k])
             IN  IF bad = "ok"
                 THEN /\ scores2' = [scores2 EXCEPT
                                       ![k] = cross_val_score(svc, connectivity_coefs2,
                                                              classes_binary, yielded[2][k])]
                      /\ UNCHANGED <<pc, error>>
                 ELSE /\ Raise("score2", k, bad)
                      /\ UNCHANGED scores2
    /\ UNCHANGED <<inputs, np_random_global, extraction, estimation, connectivity_coefs2,
                   iter_for_prediction2, experiment1, validator, printed, yielded, attempts>>

AnyScore2Done ==
    /\ pc = "score2"
    /\ LET nx == GeneratorNext(iter_for_prediction2, cv, classes_binary, np_random_global)
       IN  /\ nx.outcome = "stop"
           /\ iter_for_prediction2' = nx.gen
    /\ \A k \in 1 .. Len(scores2) : scores2[k] # PendingScore
    /\ pc' = "report2"
    /\ UNCHANGED <<inputs, np_random_global, error, extraction, estimation,
                   connectivity_coefs2, scores2, experiment1, validator, printed, yielded,
                   attempts>>

NextAnyOrder ==
    \/ AnyExtract \/ AnyExtractDone \/ PlotTimeseries
    \/ AnyExtractConfounds \/ AnyExtractConfoundsDone
    \/ EstimateCorrelation \/ EstimateCorrelationRaise \/ Vectorize
    \/ CrossValidator \/ NewSVC
    \/ AnyScoreNext \/ AnyScore \/ AnyScoreDone \/ Report
    \/ EstimateTangent \/ EstimateTangentRaise \/ Vectorize2
    \/ AnyScore2Next \/ AnyScore2 \/ AnyScore2Done \/ Report2

SpecAnyOrder == InitAnyOrder /\ [][NextAnyOrder]_vars

\* The labels, the vectors and the splits of the sequential run.
SequentialLabels == [i \in 1 .. NSubjects |-> LabelOf(i)]

SequentialVectors(kind) == sym_to_vec(MatricesOf(kind))

RECURSIVE SequentialYield(_, _)
\* The k-th split a generator yields from the state gen on.
SequentialYield(gen, k) ==
    LET nx == GeneratorNext(gen, StratifiedShuffleSplit(n_iter, <<1, 4>>, 0),
                            SequentialLabels, np_random_global)
    IN  IF k = 1 THEN nx.split ELSE SequentialYield(nx.gen, k - 1)

SequentialScore(kind, k) ==
    cross_val_score(LinearSVC("l2", 0), SequentialVectors(kind), SequentialLabels,
                    SequentialYield(NewGenerator, k))

SequentialSummary(kind) ==
    Summary(kind, [k \in 1 .. n_iter |-> SequentialScore(kind, k)])

SequentialAgreement ==
    NSubjects <= MaxAnyOrder =>
    /\ \A k \in 1 .. Len(scores) : scores[k] = SequentialScore("correlation", k)
    /\ \A k \in 1 .. Len(scores2) : scores2[k] = SequentialScore("tangent", k)
    /\ \A j \in 1 .. Len(printed) :
          printed[j] = SequentialSummary(IF j = 1 THEN "correlation" ELSE "tangent")

=============================================================================
